---- MODULE Spec2Model ----
(***************************************************************************)
(* A model of the ros2 batch job.                                          *)
(*                                                                         *)
(*   Spec     ros2_batch_job/__main__.py, main(): the batch pipeline       *)
(*   PkgSpec  ros2_batch_job/packaging.py, build_and_package()             *)
(*                                                                         *)
(* Python strings the code takes apart or puts together (startswith, in,   *)
(* +, %, os.path.join) are sequences of tokens; None is the string "None". *)
(* Paths are sequences of components, relative to the directory the job    *)
(* was started in, so <<>> is that directory.                              *)
(***************************************************************************)
EXTENDS Integers, Sequences, FiniteSets, TLC

\* Exit codes an external command may return: 0..MaxRet.
MaxRet == 1
\* An install tree holds at most MaxFiles files of FileUniverse.
MaxFiles == 3

Rets == 0..MaxRet

None == "None"
\* A return code not assigned yet
Unset == 0 - 1

VARIABLES
    cfg,            \* the parsed command line and the host (parse_args, platform.platform())
    args,           \* the fields main() assigns on args
    job,            \* the selected batch job variant
    pc,             \* the statement main() is at
    status,         \* running | returned | exited | raised
    exitCode,       \* the process exit code once status is not running
    cwd,            \* os.getcwd()
    original_cwd,   \* what change_directory saved on entry: <<>> or <<directory>>
    scope_active,   \* inside the with change_directory block
    error,          \* the exception or exit message, once there is one
    environ,        \* the os.environ keys main() has assigned
    run_prefix,     \* job.run's prefix (push_run)
    python,         \* job.python (push_python)
    ret_build,      \* ret_build
    trace,          \* what has executed so far, in order
    p_args,         \* build_and_package: args
    p_pc,           \* build_and_package: the statement it is at, or ended at
    p_status,       \* running | returned | exited | raised
    p_error,        \* the exception raised, once there is one
    p_code,         \* what build_and_package returned, or the process exit code
    src_tree,       \* the source space: the paths that exist in it
    install_tree,   \* the install space: the files in it
    install_dirs,   \* the install space: its directories, <<>> the install space itself
    opencv_dlls,    \* whether c:/opencv/build/x64/vc14/bin holds the OpenCV DLLs
    marker,         \* ros1_bridge_ignore_marker: a path, <<>> for None
    archives,       \* the archive files written
    p_trace         \* what build_and_package has executed so far

mainVars == <<cfg, args, job, pc, status, exitCode, cwd, original_cwd, scope_active,
              error, environ, run_prefix, python, ret_build, trace>>
pkgVars == <<p_args, p_pc, p_status, p_error, p_code, src_tree, install_tree,
             install_dirs, opencv_dlls, marker, archives, p_trace>>
vars == <<mainVars, pkgVars>>

(***************************************************************************)
(* The command line                                                        *)
(***************************************************************************)
OsChoices == {"linux", "osx", "windows"}
SpaceChoices == {"sourcespace", "buildspace", "installspace", "workspace"}

\* platform.platform().lower(), as tokens
Platforms == { <<"linux", "-5.4-x86_64">>, <<"darwin", "-14.6.0">>,
               <<"windows", "-10">>, <<"freebsd", "-13.0">> }

StartsWith(s, prefix) == Len(s) >= 1 /\ s[1] = prefix

\* --white-space-in: None when the flag is absent, else the list given (nargs='*')
WhiteSpaceInputs == {[isNone |-> TRUE, items |-> {}]} \cup
                    {[isNone |-> FALSE, items |-> S] : S \in SUBSET SpaceChoices}

Configs == [os : OsChoices \cup {None},
            do_venv : BOOLEAN,
            test_branch : {None, "test_branch"},
            white_space_in : WhiteSpaceInputs,
            platform_name : Platforms]

\* args.white_space_in or []
WhiteSpaceInOrEmpty(wsi) == IF wsi.isNone \/ wsi.items = {} THEN {} ELSE wsi.items

MutResolveSourcespace(white_space_in) ==
    IF "workspace" \in white_space_in THEN "source space" ELSE "src"

ResolveWorkspace(white_space_in) ==
    IF "workspace" \in white_space_in THEN "work space" ELSE "workspace"
ResolveSourcespace(white_space_in) ==
    IF "sourcespace" \in white_space_in THEN "source space" ELSE "src"
ResolveBuildspace(white_space_in) ==
    IF "buildspace" \in white_space_in THEN "build space" ELSE "build"
ResolveInstallspace(white_space_in) ==
    IF "installspace" \in white_space_in THEN "install space" ELSE "install"

\* The if/elif chain that selects the job: the resolved args.os and the job class.
SelectJob(os, platform_name) ==
    IF os = "linux" \/ StartsWith(platform_name, "linux")
        THEN [os |-> "linux", job |-> "LinuxBatchJob"]
    ELSE IF os = "osx" \/ StartsWith(platform_name, "darwin")
        THEN [os |-> "osx", job |-> "OSXBatchJob"]
    ELSE IF os = "windows" \/ StartsWith(platform_name, "windows")
        THEN [os |-> "windows", job |-> "WindowsBatchJob"]
    ELSE [os |-> os, job |-> None]

(***************************************************************************)
(* The statements of main(), in program order                              *)
(***************************************************************************)
MutMainStepsPrereqInside ==
    << "resolveSpaces", "selectJob", "venvCheck", "setEnviron", "cleanWorkspace",
       "pre", "showEnv", "enterWorkspace", "prereq",
       "venvCreate", "pushRun", "pushPython", "venvShowEnv",
       "pipUpgrade", "setuptoolsVersion", "pipVersion", "pipDeps",
       "curl", "echoManifest", "makedirs", "vcsImport", "branchOverride",
       "vcsLog", "setupEnv", "build", "debugHook", "test", "testResults",
       "return" >>

MutMainStepsTestFirst ==
    << "resolveSpaces", "selectJob", "venvCheck", "setEnviron", "cleanWorkspace",
       "pre", "showEnv", "prereq", "enterWorkspace",
       "venvCreate", "pushRun", "pushPython", "venvShowEnv",
       "pipUpgrade", "setuptoolsVersion", "pipVersion", "pipDeps",
       "curl", "echoManifest", "makedirs", "vcsImport", "branchOverride",
       "vcsLog", "setupEnv", "test", "build", "debugHook", "testResults",
       "return" >>

MutMainStepsUpgradeBeforePush ==
    << "resolveSpaces", "selectJob", "venvCheck", "setEnviron", "cleanWorkspace",
       "pre", "showEnv", "prereq", "enterWorkspace",
       "venvCreate", "pushRun", "pipUpgrade", "pushPython", "venvShowEnv",
       "setuptoolsVersion", "pipVersion", "pipDeps",
       "curl", "echoManifest", "makedirs", "vcsImport", "branchOverride",
       "vcsLog", "setupEnv", "build", "debugHook", "test", "testResults",
       "return" >>

MainSteps ==
    << "resolveSpaces", "selectJob", "venvCheck", "setEnviron", "cleanWorkspace",
       "pre", "showEnv", "prereq", "enterWorkspace",
       "venvCreate", "pushRun", "pushPython", "venvShowEnv",
       "pipUpgrade", "setuptoolsVersion", "pipVersion", "pipDeps",
       "curl", "echoManifest", "makedirs", "vcsImport", "branchOverride",
       "vcsLog", "setupEnv", "build", "debugHook", "test", "testResults",
       "return" >>

IndexOf(seq, x) == CHOOSE i \in 1..Len(seq) : seq[i] = x

\* The statement after `step`; "end" after the last one.
StepAfter(step) ==
    LET i == IndexOf(MainSteps, step)
    IN  IF i = Len(MainSteps) THEN "end" ELSE MainSteps[i + 1]

\* job.run's exit_on_error default
DefaultExitOnError == TRUE

MutExitOnErrorFetchSoft(step) ==
    IF step \in {"branchOverride", "build", "test", "testResults", "curl"}
        THEN FALSE ELSE DefaultExitOnError

MutExitOnErrorBuildFatal(step) ==
    IF step \in {"branchOverride", "test", "testResults"}
        THEN FALSE ELSE DefaultExitOnError

MutExitOnErrorBranchFatal(step) ==
    IF step \in {"build", "test", "testResults"}
        THEN FALSE ELSE DefaultExitOnError

MutExitOnErrorPrintSoft(step) ==
    IF step \in {"branchOverride", "build", "test", "testResults",
                 "setuptoolsVersion", "pipVersion"}
        THEN FALSE ELSE DefaultExitOnError

\* The exit_on_error each job.run call of main() passes.
ExitOnError(step) ==
    IF step \in {"branchOverride", "build", "test", "testResults"}
        THEN FALSE ELSE DefaultExitOnError

\* sys.executable and the venv's interpreter
HostPython == "sys.executable"
VenvPython == "venv_python"

(***************************************************************************)
(* Initial states                                                          *)
(***************************************************************************)
NoArgs == [os |-> None, white_space_in |-> {}, workspace |-> None,
           sourcespace |-> None, buildspace |-> None, installspace |-> None]

MainInit ==
    /\ cfg \in Configs
    /\ args = [NoArgs EXCEPT !.os = cfg.os]
    /\ job = None
    /\ pc = MainSteps[1]
    /\ status = "running"
    /\ exitCode = Unset
    /\ cwd = <<>>
    /\ original_cwd = <<>>
    /\ scope_active = FALSE
    /\ error = None
    /\ environ = {}
    /\ run_prefix = <<>>
    /\ python = HostPython
    /\ ret_build = Unset
    /\ trace = <<>>

(***************************************************************************)
(* The collaborators main() calls: util.change_directory, job.run, the     *)
(* interpreter's exit paths                                                *)
(***************************************************************************)
\* One entry of the execution trace.
Event(step, kind, ret, py, dir) ==
    [step |-> step, kind |-> kind, ret |-> ret, cwd |-> cwd,
     prefix |-> run_prefix, py |-> py, dir |-> dir]

\* change_directory.__enter__
EnterDirectory(directory) ==
    /\ original_cwd' = <<cwd>>
    /\ cwd' = Append(cwd, directory)
    /\ scope_active' = TRUE

\* change_directory.__exit__, on every way out of the block
LeaveDirectory ==
    /\ cwd' = IF scope_active THEN original_cwd[1] ELSE cwd
    /\ scope_active' = FALSE
    /\ UNCHANGED original_cwd

\* sys.exit(code): SystemExit unwinds the with block, the process ends with code
SysExit(code, message) ==
    /\ status' = "exited"
    /\ exitCode' = code
    /\ error' = message
    /\ pc' = "end"
    /\ LeaveDirectory

\* An exception nothing catches: the with block is unwound, the interpreter exits 1
Raise(exception) ==
    /\ status' = "raised"
    /\ exitCode' = 1
    /\ error' = exception
    /\ pc' = "end"
    /\ LeaveDirectory

\* Fall through to the next statement.
Goto(step) ==
    /\ pc' = step
    /\ UNCHANGED <<status, exitCode, error, cwd, original_cwd, scope_active>>

\* job.run(cmd, exit_on_error): the command runs from cwd and returns ret; a non-zero
\* ret under exit_on_error ends the process with that code.
JobRun(step, ret, py, dir, exit_on_error) ==
    /\ trace' = Append(trace, Event(step, "cmd", ret, py, dir))
    /\ IF ret # 0 /\ exit_on_error
          THEN SysExit(ret, "job.run")
          ELSE Goto(StepAfter(step))

\* A job hook (pre, show_env, setup_env) or a statement of main() with an effect
\* worth recording.
Record(step, kind, dir) ==
    trace' = Append(trace, Event(step, kind, 0, None, dir))

At(step) == status = "running" /\ pc = step

(***************************************************************************)
(* main(), statement by statement                                          *)
(***************************************************************************)
ResolveSpaces ==
    /\ At("resolveSpaces")
    /\ LET white_space_in == WhiteSpaceInOrEmpty(cfg.white_space_in)
       IN  args' = [args EXCEPT
                !.white_space_in = white_space_in,
                !.workspace = ResolveWorkspace(white_space_in),
                !.sourcespace = ResolveSourcespace(white_space_in),
                !.buildspace = ResolveBuildspace(white_space_in),
                !.installspace = ResolveInstallspace(white_space_in)]
    /\ Goto(StepAfter("resolveSpaces"))
    /\ UNCHANGED <<cfg, job, environ, run_prefix, python, ret_build, trace>>

SelectJobStep ==
    /\ At("selectJob")
    /\ LET sel == SelectJob(args.os, cfg.platform_name)
       IN  /\ args' = [args EXCEPT !.os = sel.os]
           /\ job' = sel.job
    /\ Goto(StepAfter("selectJob"))
    /\ UNCHANGED <<cfg, environ, run_prefix, python, ret_build, trace>>

VenvCheck ==
    /\ At("venvCheck")
    /\ IF cfg.do_venv /\ args.os = "windows"
          THEN SysExit(1, "--do-venv is not supported on windows")
          ELSE Goto(StepAfter("venvCheck"))
    /\ UNCHANGED <<cfg, args, job, environ, run_prefix, python, ret_build, trace>>

SetEnviron ==
    /\ At("setEnviron")
    /\ environ' = environ \cup {"TERM"} \cup
                  (IF args.os = "windows" THEN {"ConEmuANSI"} ELSE {})
    /\ Record("setEnviron", "env", None)
    /\ Goto(StepAfter("setEnviron"))
    /\ UNCHANGED <<cfg, args, job, run_prefix, python, ret_build>>

CleanWorkspace ==
    /\ At("cleanWorkspace")
    /\ Record("cleanWorkspace", "fs", args.workspace)
    /\ Goto(StepAfter("cleanWorkspace"))
    /\ UNCHANGED <<cfg, args, job, environ, run_prefix, python, ret_build>>

\* job.pre(), job.show_env(), job.setup_env(): an attribute of None when no job
\* was selected
Hook(step) ==
    /\ At(step)
    /\ IF job = None
          THEN Raise("AttributeError") /\ UNCHANGED trace
          ELSE Record(step, "hook", None) /\ Goto(StepAfter(step))
    /\ UNCHANGED <<cfg, args, job, environ, run_prefix, python, ret_build>>

Pre == Hook("pre")

ShowEnv == Hook("showEnv")

Prereq ==
    /\ At("prereq")
    /\ IF args.os # "linux"
          THEN \E ret \in Rets :
                  JobRun("prereq", ret, HostPython, None, ExitOnError("prereq"))
          ELSE Goto(StepAfter("prereq")) /\ UNCHANGED trace
    /\ UNCHANGED <<cfg, args, job, environ, run_prefix, python, ret_build>>

EnterWorkspace ==
    /\ At("enterWorkspace")
    /\ EnterDirectory(args.workspace)
    /\ pc' = StepAfter("enterWorkspace")
    /\ UNCHANGED <<cfg, args, job, status, exitCode, error, environ, run_prefix,
                   python, ret_build, trace>>

\* A plain job.run call of main(): join of the guard, the command and what it leaves alone.
Command(step, py, dir) ==
    /\ At(step)
    /\ \E ret \in Rets : JobRun(step, ret, py, dir, ExitOnError(step))
    /\ UNCHANGED <<cfg, args, job, environ, run_prefix, python, ret_build>>

\* A statement inside `if args.do_venv:` when the flag is off
SkipUnlessVenv(step) ==
    /\ At(step)
    /\ ~cfg.do_venv
    /\ Goto(StepAfter(step))
    /\ UNCHANGED <<cfg, args, job, environ, run_prefix, python, ret_build, trace>>

VenvCreate ==
    \/ cfg.do_venv /\ Command("venvCreate", HostPython, "venv")
    \/ SkipUnlessVenv("venvCreate")

MutPushRun ==
    /\ At("pushRun")
    /\ run_prefix' = <<"venv">>
    /\ Record("pushRun", "push", "venv")
    /\ Goto(StepAfter("pushRun"))
    /\ UNCHANGED <<cfg, args, job, environ, python, ret_build>>

\* job.push_run(venv): the prefix is replaced, not appended to
PushRun ==
    \/ /\ At("pushRun")
       /\ cfg.do_venv
       /\ run_prefix' = <<"venv">>
       /\ Record("pushRun", "push", "venv")
       /\ Goto(StepAfter("pushRun"))
       /\ UNCHANGED <<cfg, args, job, environ, python, ret_build>>
    \/ SkipUnlessVenv("pushRun")

\* job.push_python(venv_python)
PushPython ==
    \/ /\ At("pushPython")
       /\ cfg.do_venv
       /\ python' = VenvPython
       /\ Record("pushPython", "push", "venv")
       /\ Goto(StepAfter("pushPython"))
       /\ UNCHANGED <<cfg, args, job, environ, run_prefix, ret_build>>
    \/ SkipUnlessVenv("pushPython")

VenvShowEnv ==
    \/ cfg.do_venv /\ Hook("venvShowEnv")
    \/ SkipUnlessVenv("venvShowEnv")

PipUpgrade == Command("pipUpgrade", python, None)

SetuptoolsVersion == Command("setuptoolsVersion", python, None)

PipVersion == Command("pipVersion", python, None)

PipDeps == Command("pipDeps", python, None)

Curl == Command("curl", None, None)

\* log(...); print(f.read())
EchoManifest ==
    /\ At("echoManifest")
    /\ Record("echoManifest", "io", None)
    /\ Goto(StepAfter("echoManifest"))
    /\ UNCHANGED <<cfg, args, job, environ, run_prefix, python, ret_build>>

\* if not os.path.exists(args.sourcespace): os.makedirs(args.sourcespace)
Makedirs ==
    /\ At("makedirs")
    /\ Record("makedirs", "fs", args.sourcespace)
    /\ Goto(StepAfter("makedirs"))
    /\ UNCHANGED <<cfg, args, job, environ, run_prefix, python, ret_build>>

VcsImport == Command("vcsImport", None, args.sourcespace)

BranchOverride ==
    \/ cfg.test_branch # None /\ Command("branchOverride", None, ".")
    \/ /\ At("branchOverride")
       /\ cfg.test_branch = None
       /\ Goto(StepAfter("branchOverride"))
       /\ UNCHANGED <<cfg, args, job, environ, run_prefix, python, ret_build, trace>>

\* job.run(['vcs', 'log', '-l1', 'src'])
VcsLog == Command("vcsLog", None, "src")

SetupEnv == Hook("setupEnv")

Build ==
    /\ At("build")
    /\ \E ret \in Rets :
          /\ JobRun("build", ret, python, args.sourcespace, ExitOnError("build"))
          /\ ret_build' = ret
    /\ UNCHANGED <<cfg, args, job, environ, run_prefix, python>>

MutDebugHook ==
    /\ At("debugHook")
    /\ Record("debugHook", "debug", None)
    /\ Goto(StepAfter("debugHook"))
    /\ UNCHANGED <<cfg, args, job, environ, run_prefix, python, ret_build>>

\* if ret_build != 0: warn(...); set_trace()   -- the debugger returns when the
\* operator lets the program continue
DebugHook ==
    /\ At("debugHook")
    /\ IF ret_build # 0
          THEN Record("debugHook", "debug", None)
          ELSE UNCHANGED trace
    /\ Goto(StepAfter("debugHook"))
    /\ UNCHANGED <<cfg, args, job, environ, run_prefix, python, ret_build>>

Test == Command("test", python, args.sourcespace)

TestResults == Command("testResults", python, args.buildspace)

\* return 0, from inside the with block
Return ==
    /\ At("return")
    /\ Record("return", "return", None)
    /\ status' = "returned"
    /\ exitCode' = 0
    /\ pc' = "end"
    /\ LeaveDirectory
    /\ UNCHANGED <<cfg, args, job, error, environ, run_prefix, python, ret_build>>

(***************************************************************************)
(* packaging.py: names and paths                                           *)
(*                                                                         *)
(* A name is a sequence of tokens ('ros2-' + args.os is <<"ros2-", os>>),  *)
(* a path a sequence of names.                                             *)
(***************************************************************************)
Contains(name, token) == \E i \in 1..Len(name) : name[i] = token

Bin == <<"bin">>
Lib == <<"lib">>
Dot == <<".">>

\* libfile % version, for libfile in ['opencv_core%d.dll', 'opencv_highgui%d.dll']
OpenCVLibfile(stem, version) == <<stem, version, ".dll">>

\* The files that may be in the install space
FileUniverse ==
    { <<Bin, <<"ros2">>>>,
      <<Bin, <<"talker", "__rmw_", "fastrtps">>>>,
      <<Bin, <<"simple_bridge", "_1_to_2">>>>,
      <<Bin, <<"static_bridge">>>>,
      <<Bin, OpenCVLibfile("opencv_core", "2411")>>,
      <<Lib, <<"librcl.so">>>>,
      <<Lib, <<"python">>, <<"rclpy.py">>>>,
      << <<"setup.bash">> >> }

\* The directories a file lies in, outermost first: its proper non-empty prefixes
Parents(path) == { SubSeq(path, 1, n) : n \in 1..(Len(path) - 1) }

DirsOf(files) == {<<>>} \cup UNION { Parents(f) : f \in files }

InstallTrees == { T \in SUBSET FileUniverse : Cardinality(T) <= MaxFiles }

\* os.path.dirname / os.path.basename
Dirname(path) == SubSeq(path, 1, Len(path) - 1)
Basename(path) == path[Len(path)]

\* os.path.relpath(dirname, start=args.installspace), dirname under the install space
Relpath(dirname) == IF dirname = <<>> THEN <<Dot>> ELSE dirname

\* os.path.normpath of a relative path: the '.' components go
RECURSIVE Normpath(_)
Normpath(path) ==
    IF path = <<>> THEN <<>>
    ELSE IF Head(path) = Dot THEN Normpath(Tail(path))
    ELSE <<Head(path)>> \o Normpath(Tail(path))

\* 'ros2-' + args.os
FolderName(os) == <<"ros2-", os>>

\* tarfile.add(args.installspace, arcname=folder_name): the member name of an entry
TarArcname(folder_name, path) == <<folder_name>> \o path

MutZipFileArcname(folder_name, dirname, filename) ==
    <<folder_name>> \o Relpath(dirname) \o <<filename>>

\* zf.write(..., arcname=os.path.join(folder_name, relpath, filename)): ZipFile.write
\* stores the normalised arcname
ZipFileArcname(folder_name, dirname, filename) ==
    Normpath(<<folder_name>> \o Relpath(dirname) \o <<filename>>)

\* zf.write(dirname, arcname=os.path.join(folder_name, relpath))
ZipDirArcname(folder_name, dirname) == Normpath(<<folder_name>> \o Relpath(dirname))

\* The files the Windows branch copies into <install>/bin before zipping
OpenCVDestinations ==
    { <<Bin, OpenCVLibfile(stem, version)>> :
        stem \in {"opencv_core", "opencv_highgui"}, version \in {"2411", "2412"} }

\* The filter of the "unnecessary" executables
Unnecessary(filename) ==
    \/ Contains(filename, "__rmw_")
    \/ StartsWith(filename, "simple_bridge")
    \/ StartsWith(filename, "static_bridge")

MutArchiveKind(os) ==
    IF os = "windows" THEN "zip" ELSE "tar.bz2"

\* The branch of the archive step
ArchiveKind(os) ==
    IF os = "linux" \/ os = "osx" THEN "tar.bz2"
    ELSE IF os = "windows" THEN "zip"
    ELSE "unsupported"

\* archive_path
ArchivePath(os) ==
    IF ArchiveKind(os) = "tar.bz2" THEN <<"ros2-package-", os, ".tar.bz2">>
    ELSE <<"ros2-package-windows.zip">>

Ros1BridgePath == <<"ros2", "ros1_bridge">>
AmentIgnore == Append(Ros1BridgePath, "AMENT_IGNORE")

(***************************************************************************)
(* build_and_package(args, job), statement by statement                    *)
(***************************************************************************)
PkgAt(step) == p_status = "running" /\ p_pc = step

\* An exception nothing in build_and_package catches
PkgRaise(exception) ==
    /\ p_status' = "raised"
    /\ p_error' = exception
    /\ UNCHANGED <<p_pc, p_code>>

PkgGoto(step) ==
    /\ p_pc' = step
    /\ UNCHANGED <<p_status, p_error, p_code>>

MutPkgExitOnError(step) ==
    IF step = "mainBuild" THEN FALSE ELSE DefaultExitOnError

\* The exit_on_error the job.run calls of build_and_package pass: none, the default
PkgExitOnError(step) == DefaultExitOnError

\* job.run(cmd), exit_on_error left at its default
PkgJobRun(step, ret, cmd, next) ==
    /\ p_trace' = Append(p_trace,
            [step |-> step, ret |-> ret, cmd |-> cmd,
             ignored |-> AmentIgnore \in src_tree, marked |-> marker # <<>>])
    /\ IF ret # 0 /\ PkgExitOnError(step)
          THEN /\ p_status' = "exited"
               /\ p_code' = ret
               /\ UNCHANGED <<p_pc, p_error>>
          ELSE PkgGoto(next)

\* if os.path.exists(ros1_bridge_path): open(ros1_bridge_ignore_marker, 'w')
Mask ==
    /\ PkgAt("mask")
    /\ IF Ros1BridgePath \in src_tree
          THEN /\ marker' = AmentIgnore
               /\ src_tree' = src_tree \cup {AmentIgnore}
          ELSE UNCHANGED <<marker, src_tree>>
    /\ PkgGoto("mainBuild")
    /\ UNCHANGED <<p_args, install_tree, install_dirs, opencv_dlls, archives, p_trace>>

\* cmd of the main build
MainBuildCmd ==
    {"build"} \cup (IF p_args.isolated THEN {"--isolated"} ELSE {})
              \cup (IF p_args.os # "windows" THEN {"--cmake-args"} ELSE {})

MainBuild ==
    /\ PkgAt("mainBuild")
    /\ \E ret \in Rets : PkgJobRun("mainBuild", ret, MainBuildCmd, "unmask")
    /\ UNCHANGED <<p_args, src_tree, install_tree, install_dirs, opencv_dlls, marker,
                   archives>>

\* if ros1_bridge_ignore_marker: os.remove(ros1_bridge_ignore_marker)
Unmask ==
    /\ PkgAt("unmask")
    /\ IF marker # <<>>
          THEN src_tree' = src_tree \ {marker}
          ELSE UNCHANGED src_tree
    /\ PkgGoto("bridgeBuild")
    /\ UNCHANGED <<p_args, install_tree, install_dirs, opencv_dlls, marker, archives,
                   p_trace>>

MutBridgeBuildCmd ==
    {"build", "--only", "--cmake-args"}
        \cup (IF p_args.isolated THEN {"--isolated"} ELSE {})

\* cmd of the build of the bridge alone
BridgeBuildCmd ==
    {"build", "--only", "--cmake-args", "--make-flags -j1"}
        \cup (IF p_args.isolated THEN {"--isolated"} ELSE {})

BridgeBuild ==
    /\ PkgAt("bridgeBuild")
    /\ IF p_args.os \in {"linux", "osx"}
          THEN \E ret \in Rets :
                  PkgJobRun("bridgeBuild", ret, BridgeBuildCmd, "removeExecutables")
          ELSE PkgGoto("removeExecutables") /\ UNCHANGED p_trace
    /\ UNCHANGED <<p_args, src_tree, install_tree, install_dirs, opencv_dlls, marker,
                   archives>>

\* for filename in os.listdir(install_bin_path): ... os.remove(...)
RemoveExecutables ==
    /\ PkgAt("removeExecutables")
    /\ IF <<Bin>> \notin install_dirs
          THEN PkgRaise("FileNotFoundError") /\ UNCHANGED install_tree
          ELSE /\ install_tree' =
                    { f \in install_tree :
                        ~(Dirname(f) = <<Bin>> /\ Unnecessary(Basename(f))) }
               /\ PkgGoto("archive")
    /\ UNCHANGED <<p_args, src_tree, install_dirs, opencv_dlls, marker, archives, p_trace>>

\* with tarfile.open(archive_path, 'w:bz2') as h: h.add(installspace, arcname=folder_name)
TarArchive(os, files, dirs) ==
    [path |-> ArchivePath(os), format |-> "tar.bz2",
     files |-> { TarArcname(FolderName(os), f) : f \in files },
     dirs |-> { TarArcname(FolderName(os), d) : d \in dirs }]

\* with zipfile.ZipFile(archive_path, 'w') as zf: for dirname, subdirs, files in os.walk(...)
ZipArchive(os, files, dirs) ==
    [path |-> ArchivePath(os), format |-> "zip",
     files |-> UNION { { ZipFileArcname(FolderName(os), dirname, Basename(f)) :
                            f \in { g \in files : Dirname(g) = dirname } } :
                       dirname \in dirs },
     dirs |-> { ZipDirArcname(FolderName(os), dirname) : dirname \in dirs }]

\* # create an archive
Archive ==
    /\ PkgAt("archive")
    /\ LET kind == ArchiveKind(p_args.os)
       IN  IF kind = "tar.bz2"
              THEN /\ archives' = archives \cup
                                  {TarArchive(p_args.os, install_tree, install_dirs)}
                   /\ PkgGoto("return")
                   /\ UNCHANGED install_tree
           ELSE IF kind = "zip"
              THEN IF ~opencv_dlls
                      \* shutil.copy of a file that is not there
                      THEN PkgRaise("FileNotFoundError")
                           /\ UNCHANGED <<install_tree, archives>>
                      ELSE /\ install_tree' = install_tree \cup OpenCVDestinations
                           /\ archives' = archives \cup
                                  {ZipArchive(p_args.os,
                                              install_tree \cup OpenCVDestinations,
                                              install_dirs)}
                           /\ PkgGoto("return")
           ELSE PkgRaise("RuntimeError") /\ UNCHANGED <<install_tree, archives>>
    /\ UNCHANGED <<p_args, src_tree, install_dirs, opencv_dlls, marker, p_trace>>

\* return 0
PkgReturn ==
    /\ PkgAt("return")
    /\ p_status' = "returned"
    /\ p_code' = 0
    /\ p_pc' = "end"
    /\ UNCHANGED <<p_args, p_error, src_tree, install_tree, install_dirs, opencv_dlls,
                   marker, archives, p_trace>>

(***************************************************************************)
(* The two programs                                                        *)
(***************************************************************************)
\* The os values build_and_package may be handed
PkgOsValues == OsChoices \cup {"freebsd"}

SourceTrees == { {}, {Ros1BridgePath}, {Ros1BridgePath, AmentIgnore} }

PkgInit ==
    /\ p_args \in [os : PkgOsValues, isolated : BOOLEAN]
    /\ p_pc = "mask"
    /\ p_status = "running"
    /\ p_error = None
    /\ p_code = Unset
    /\ src_tree \in SourceTrees
    /\ install_tree \in InstallTrees
    /\ install_dirs \in { DirsOf(install_tree), DirsOf(install_tree) \cup {<<Bin>>} }
    /\ opencv_dlls \in BOOLEAN
    /\ marker = <<>>
    /\ archives = {}
    /\ p_trace = <<>>

\* build_and_package not started
PkgIdle ==
    /\ p_args = [os |-> "linux", isolated |-> FALSE]
    /\ p_pc = "mask"
    /\ p_status = "running"
    /\ p_error = None
    /\ p_code = Unset
    /\ src_tree = {}
    /\ install_tree = {}
    /\ install_dirs = {<<>>}
    /\ opencv_dlls = FALSE
    /\ marker = <<>>
    /\ archives = {}
    /\ p_trace = <<>>

\* main() not started
MainIdle ==
    /\ MainInit
    /\ cfg = [os |-> "linux", do_venv |-> FALSE, test_branch |-> None,
              white_space_in |-> [isNone |-> TRUE, items |-> {}],
              platform_name |-> <<"linux", "-5.4-x86_64">>]

Init == MainInit /\ PkgIdle
Next ==
    \/ ResolveSpaces /\ UNCHANGED pkgVars
    \/ SelectJobStep /\ UNCHANGED pkgVars
    \/ VenvCheck /\ UNCHANGED pkgVars
    \/ SetEnviron /\ UNCHANGED pkgVars
    \/ CleanWorkspace /\ UNCHANGED pkgVars
    \/ Pre /\ UNCHANGED pkgVars
    \/ ShowEnv /\ UNCHANGED pkgVars
    \/ Prereq /\ UNCHANGED pkgVars
    \/ EnterWorkspace /\ UNCHANGED pkgVars
    \/ VenvCreate /\ UNCHANGED pkgVars
    \/ PushRun /\ UNCHANGED pkgVars
    \/ PushPython /\ UNCHANGED pkgVars
    \/ VenvShowEnv /\ UNCHANGED pkgVars
    \/ PipUpgrade /\ UNCHANGED pkgVars
    \/ SetuptoolsVersion /\ UNCHANGED pkgVars
    \/ PipVersion /\ UNCHANGED pkgVars
    \/ PipDeps /\ UNCHANGED pkgVars
    \/ Curl /\ UNCHANGED pkgVars
    \/ EchoManifest /\ UNCHANGED pkgVars
    \/ Makedirs /\ UNCHANGED pkgVars
    \/ VcsImport /\ UNCHANGED pkgVars
    \/ BranchOverride /\ UNCHANGED pkgVars
    \/ VcsLog /\ UNCHANGED pkgVars
    \/ SetupEnv /\ UNCHANGED pkgVars
    \/ Build /\ UNCHANGED pkgVars
    \/ DebugHook /\ UNCHANGED pkgVars
    \/ Test /\ UNCHANGED pkgVars
    \/ TestResults /\ UNCHANGED pkgVars
    \/ Return /\ UNCHANGED pkgVars
Spec == Init /\ [][Next]_vars

PkgSpecInit == MainIdle /\ PkgInit
PkgSpecNext ==
    \/ Mask /\ UNCHANGED mainVars
    \/ MainBuild /\ UNCHANGED mainVars
    \/ Unmask /\ UNCHANGED mainVars
    \/ BridgeBuild /\ UNCHANGED mainVars
    \/ RemoveExecutables /\ UNCHANGED mainVars
    \/ Archive /\ UNCHANGED mainVars
    \/ PkgReturn /\ UNCHANGED mainVars
PkgSpec == PkgSpecInit /\ [][PkgSpecNext]_vars

(***************************************************************************)
(* Properties of main()                                                    *)
(***************************************************************************)
\* main() has executed statement `step` or ended before it
Past(step) ==
    \/ status # "running"
    \/ pc = "end"
    \/ IndexOf(MainSteps, pc) > IndexOf(MainSteps, step)

Events == 1..Len(trace)

\* The events that touch the file system, call a job hook or run a command
SideEffects == { i \in Events : trace[i].kind \in {"fs", "hook", "cmd"} }

Commands == { i \in Events : trace[i].kind = "cmd" }

HasRun(step) == \E i \in Events : trace[i].step = step

\* The --white-space-in values passed
PassedWhiteSpace == IF cfg.white_space_in.isNone THEN {} ELSE cfg.white_space_in.items

\* C1: a run asked for --do-venv and --os windows, on whatever host, never cleans the
\* workspace, calls no job hook and runs no command, and ends as a non-zero exit.
C1_VenvWindowsRejected ==
    (cfg.do_venv /\ cfg.os = "windows") =>
        /\ SideEffects = {}
        /\ status # "running" => (status = "exited" /\ exitCode # 0)

\* C2: a non-zero return of the PrereqInstall, DependencyInstall, ManifestFetch or
\* SourceCheckout command is the last thing the run does: nothing executes after it
\* and the process has exited with that non-zero code.
C2_FatalFailure ==
    \A i \in Commands :
        (trace[i].step \in {"prereq", "pipDeps", "curl", "vcsImport"} /\ trace[i].ret # 0)
        => /\ i = Len(trace)
           /\ status = "exited"
           /\ exitCode = trace[i].ret
           /\ exitCode # 0

\* C2's case: the manifest fetch has failed
C2_Witness ==
    /\ Len(trace) > 0
    /\ trace[Len(trace)].step = "curl"
    /\ trace[Len(trace)].ret # 0
    /\ ~HasRun("echoManifest")
    /\ status = "exited"

\* The one event of `step`
EventOf(step) == CHOOSE i \in Events : trace[i].step = step

\* C3: once Build has run the run never aborts, whatever Build, Test and
\* ResultsCollection return: when main() ends it has returned 0, with Build, Test and
\* ResultsCollection each run once, in that order.
C3_SoftFailure ==
    HasRun("build") =>
        /\ status \in {"running", "returned"}
        /\ status = "returned" =>
              /\ exitCode = 0
              /\ \A step \in {"build", "test", "testResults"} :
                    Cardinality({ i \in Events : trace[i].step = step }) = 1
              /\ EventOf("build") < EventOf("test")
              /\ EventOf("test") < EventOf("testResults")

\* C3's case: Build, Test and ResultsCollection all failed and main() returned
C3_Witness ==
    /\ status = "returned"
    /\ exitCode = 0
    /\ \A step \in {"build", "test", "testResults"} :
          HasRun(step) /\ trace[EventOf(step)].ret # 0

\* The job class of an os value
JobClassOf(os) ==
    CASE os = "linux" -> "LinuxBatchJob"
      [] os = "osx" -> "OSXBatchJob"
      [] os = "windows" -> "WindowsBatchJob"
      [] OTHER -> None

\* The os of a host platform
DetectedOs(platform_name) ==
    CASE StartsWith(platform_name, "linux") -> "linux"
      [] StartsWith(platform_name, "darwin") -> "osx"
      [] StartsWith(platform_name, "windows") -> "windows"
      [] OTHER -> None

\* C4: once the job is selected, an explicit --os decides args.os and the job variant
\* whatever the host is; the host decides them only when no --os was given.
C4_ExplicitOsWins ==
    Past("selectJob") =>
        IF cfg.os # None
           THEN args.os = cfg.os /\ job = JobClassOf(cfg.os)
           ELSE job = JobClassOf(DetectedOs(cfg.platform_name))

\* C5: with no --os on a host that is none of linux, darwin, windows, the run sets no
\* environment variable, does not clean the workspace, runs no command, and ends in
\* an error.
C5_NoJobNoSideEffect ==
    (cfg.os = None /\ DetectedOs(cfg.platform_name) = None) =>
        /\ environ = {}
        /\ SideEffects = {}
        /\ status # "running" => (status \in {"exited", "raised"} /\ exitCode # 0)

\* Stages 6a-6k
InsideSteps ==
    {"venvCreate", "pushRun", "pushPython", "venvShowEnv", "pipUpgrade",
     "setuptoolsVersion", "pipVersion", "pipDeps", "curl", "echoManifest", "makedirs",
     "vcsImport", "branchOverride", "vcsLog", "setupEnv", "build", "debugHook", "test",
     "testResults", "return"}

\* C6: however the change_directory block is left (return 0 or an abort inside it) the
\* working directory is again the one current before it was entered; WorkspacePrep,
\* PlatformPre, the first EnvDiagnostics and PrereqInstall run in the start directory,
\* stages 6a-6k in the workspace directory.
C6_ScopedDirectory ==
    /\ (status # "running" /\ original_cwd # <<>>) => cwd = original_cwd[1]
    /\ status # "running" => cwd = <<>>
    /\ \A i \in Events :
          /\ trace[i].step \in {"cleanWorkspace", "pre", "showEnv", "prereq"}
                => trace[i].cwd = <<>>
          /\ trace[i].step \in InsideSteps => trace[i].cwd = <<args.workspace>>

\* C6's case: a fail-fast command failed inside the workspace
C6_Witness ==
    /\ status = "exited"
    /\ original_cwd = << <<>> >>
    /\ Len(trace) > 0
    /\ trace[Len(trace)].kind = "cmd"
    /\ trace[Len(trace)].cwd = <<"work space">>
    /\ cwd = <<>>

\* The pipeline stage a statement of main() belongs to
StageOf(step) ==
    CASE step \in {"resolveSpaces", "selectJob", "venvCheck", "setEnviron"} -> "Init"
      [] step = "cleanWorkspace" -> "WorkspacePrep"
      [] step = "pre" -> "PlatformPre"
      [] step = "showEnv" -> "EnvDiagnostics"
      [] step = "prereq" -> "PrereqInstall"
      [] step = "enterWorkspace" -> "EnterWorkspace"
      [] step \in {"venvCreate", "pushRun", "pushPython", "venvShowEnv"} -> "EnvActivation"
      [] step \in {"pipUpgrade", "setuptoolsVersion", "pipVersion"} -> "ToolchainUpdate"
      [] step = "pipDeps" -> "DependencyInstall"
      [] step \in {"curl", "echoManifest"} -> "ManifestFetch"
      [] step \in {"makedirs", "vcsImport"} -> "SourceCheckout"
      [] step = "branchOverride" -> "BranchOverride"
      [] step = "vcsLog" -> "RevisionLog"
      [] step = "setupEnv" -> "PlatformSetupEnv"
      [] step \in {"build", "debugHook"} -> "Build"
      [] step = "test" -> "Test"
      [] step = "testResults" -> "ResultsCollection"
      [] step = "return" -> "Return"

\* The stages of a trace in the order they ran, a stage of several statements once
RECURSIVE StagesOf(_)
StagesOf(events) ==
    IF events = <<>> THEN <<>>
    ELSE LET rest == StagesOf(Tail(events))
             stage == StageOf(Head(events).step)
         IN  IF stage = "Init" \/ (rest # <<>> /\ Head(rest) = stage)
                THEN rest
                ELSE <<stage>> \o rest

RECURSIVE Keep(_, _)
Keep(seq, dropped) ==
    IF seq = <<>> THEN <<>>
    ELSE IF Head(seq) \in dropped THEN Keep(Tail(seq), dropped)
    ELSE <<Head(seq)>> \o Keep(Tail(seq), dropped)

AllStages ==
    << "WorkspacePrep", "PlatformPre", "EnvDiagnostics", "PrereqInstall",
       "EnvActivation", "ToolchainUpdate", "DependencyInstall", "ManifestFetch",
       "SourceCheckout", "BranchOverride", "RevisionLog", "PlatformSetupEnv",
       "Build", "Test", "ResultsCollection", "Return" >>

ExpectedStages(os, do_venv, test_branch) ==
    Keep(AllStages,
         (IF os = "linux" THEN {"PrereqInstall"} ELSE {})
         \cup (IF do_venv THEN {} ELSE {"EnvActivation"})
         \cup (IF test_branch = None THEN {"BranchOverride"} ELSE {}))

AllReturnedZero == \A i \in Events : trace[i].ret = 0

\* C7: a run whose commands all returned zero ends by returning 0, and its stages ran
\* once each in the fixed order, PrereqInstall present iff the os is not linux,
\* EnvActivation iff do-venv, BranchOverride iff a test branch is set; for --os linux
\* without do-venv and test branch none of the three ran.
C7_StageOrder ==
    /\ (status = "returned" /\ AllReturnedZero) =>
          /\ exitCode = 0
          /\ StagesOf(trace) = ExpectedStages(args.os, cfg.do_venv, cfg.test_branch)
          /\ (cfg.os = "linux" /\ ~cfg.do_venv /\ cfg.test_branch = None) =>
                StagesOf(trace) =
                    << "WorkspacePrep", "PlatformPre", "EnvDiagnostics",
                       "ToolchainUpdate", "DependencyInstall", "ManifestFetch",
                       "SourceCheckout", "RevisionLog", "PlatformSetupEnv",
                       "Build", "Test", "ResultsCollection", "Return" >>
    /\ (status \in {"exited", "raised"} /\ AllReturnedZero) => Commands = {}

\* C7's case: a run with all three conditional stages has returned, every command zero
C7_Witness ==
    /\ status = "returned"
    /\ AllReturnedZero
    /\ args.os # "linux"
    /\ cfg.do_venv
    /\ cfg.test_branch # None
    /\ Len(StagesOf(trace)) = Len(AllStages)

\* C8: each of the four names is its with-space literal exactly when its key was
\* passed to --white-space-in, and its no-space default otherwise.
C8_WhiteSpaceNames ==
    Past("resolveSpaces") =>
        /\ args.workspace =
              (IF "workspace" \in PassedWhiteSpace THEN "work space" ELSE "workspace")
        /\ args.sourcespace =
              (IF "sourcespace" \in PassedWhiteSpace THEN "source space" ELSE "src")
        /\ args.buildspace =
              (IF "buildspace" \in PassedWhiteSpace THEN "build space" ELSE "build")
        /\ args.installspace =
              (IF "installspace" \in PassedWhiteSpace THEN "install space" ELSE "install")

\* C8's case: only the workspace and the build space were asked to hold a space
C8_Witness ==
    /\ Past("resolveSpaces")
    /\ PassedWhiteSpace = {"workspace", "buildspace"}
    /\ args.workspace = "work space"
    /\ args.sourcespace = "src"
    /\ args.buildspace = "build space"
    /\ args.installspace = "install"

\* C11: SourceCheckout, RevisionLog, Build and Test all name the resolved source
\* directory, so RevisionLog inspects the directory SourceCheckout populated.
C11_SameSourceDirectory ==
    \A i \in Events :
        trace[i].step \in {"makedirs", "vcsImport", "vcsLog", "build", "test"}
            => trace[i].dir = args.sourcespace

\* The events of `step`
EventsOf(step) == { i \in Events : trace[i].step = step }

\* The commands main() runs through an interpreter once the workspace is entered
InterpreterSteps ==
    {"pipUpgrade", "setuptoolsVersion", "pipVersion", "pipDeps", "build", "test",
     "testResults"}

\* `first` has run, once, before every event of `then`
Precedes(first, then) ==
    \A j \in EventsOf(then) :
        /\ Cardinality(EventsOf(first)) = 1
        /\ EventOf(first) < j

\* C12: with do-venv the environment is created with the host interpreter, then
\* push_run, push_python and show_env follow in that order, all before
\* ToolchainUpdate; every later interpreter command uses the environment's
\* interpreter, never the host's.
C12_EnvActivation ==
    cfg.do_venv =>
        /\ \A i \in EventsOf("venvCreate") : trace[i].py = HostPython
        /\ Precedes("venvCreate", "pushRun")
        /\ Precedes("pushRun", "pushPython")
        /\ Precedes("pushPython", "venvShowEnv")
        /\ Precedes("venvShowEnv", "pipUpgrade")
        /\ \A i \in Events :
              trace[i].step \in InterpreterSteps
                 => (trace[i].py = VenvPython /\ trace[i].py # HostPython)

\* C12's case: a do-venv run has returned, so every interpreter command has run
C12_Witness ==
    /\ cfg.do_venv
    /\ status = "returned"
    /\ \A step \in InterpreterSteps \cup {"venvCreate", "pushRun", "pushPython",
                                         "venvShowEnv"} : HasRun(step)

\* C13: the diagnostic hook is entered exactly when Build returned non-zero, right
\* after Build and before Test, and Test is what follows it; a non-zero
\* BranchOverride, Test or ResultsCollection does not enter it.
C13_BuildFailureHook ==
    /\ Cardinality(EventsOf("debugHook")) <= 1
    /\ \A i \in EventsOf("debugHook") :
          /\ i > 1
          /\ trace[i - 1].step = "build"
          /\ trace[i - 1].ret # 0
          /\ i < Len(trace) => trace[i + 1].step = "test"
          /\ i = Len(trace) => (status = "running" /\ pc = "test")
    /\ \A i \in EventsOf("build") :
          /\ (trace[i].ret # 0 /\ i < Len(trace)) => trace[i + 1].step = "debugHook"
          /\ (trace[i].ret = 0 /\ i < Len(trace)) => trace[i + 1].step = "test"
    /\ \A i \in EventsOf("test") : trace[i - 1].step \in {"build", "debugHook"}

\* C13's case: Build failed, the hook was entered and Test ran after it
C13_Witness ==
    /\ HasRun("debugHook")
    /\ HasRun("test")
    /\ trace[EventOf("build")].ret # 0
    /\ EventOf("debugHook") < EventOf("test")

\* C14: BranchOverride runs exactly when a test branch is set, after a successful
\* SourceCheckout and before RevisionLog; whatever it returns RevisionLog is next and
\* the return code of main() stays 0.
C14_BranchOverrideSoft ==
    /\ \A i \in EventsOf("branchOverride") :
          /\ cfg.test_branch # None
          /\ i > 1
          /\ trace[i - 1].step = "vcsImport"
          /\ trace[i - 1].ret = 0
          /\ i < Len(trace) => trace[i + 1].step = "vcsLog"
          /\ i = Len(trace) => (status = "running" /\ pc = "vcsLog")
    /\ \A i \in EventsOf("vcsLog") :
          IF cfg.test_branch # None
             THEN trace[i - 1].step = "branchOverride"
             ELSE trace[i - 1].step = "vcsImport"
    /\ Cardinality(EventsOf("branchOverride")) <= 1
    /\ status = "returned" => exitCode = 0

\* C14's case: BranchOverride failed and main() still returned
C14_Witness ==
    /\ HasRun("branchOverride")
    /\ trace[EventOf("branchOverride")].ret # 0
    /\ HasRun("vcsLog")
    /\ status = "returned"
    /\ exitCode = 0

\* C15 as stated: a failed install/upgrade aborts the run; a failed version print
\* (setuptools, pip) does not, and the run goes on to DependencyInstall.
C15_ToolchainUpdatePolicy ==
    \A i \in Events :
        /\ (trace[i].step = "pipUpgrade" /\ trace[i].ret # 0)
              => (i = Len(trace) /\ status = "exited")
        /\ (trace[i].step \in {"setuptoolsVersion", "pipVersion"} /\ trace[i].ret # 0)
              => status # "exited"

\* C15 amended: a non-zero return of the install/upgrade command or of either
\* version print is the last thing the run does: the process exits with that code
\* and DependencyInstall does not run.
C15_ToolchainUpdateAmended ==
    \A i \in Events :
        (trace[i].step \in {"pipUpgrade", "setuptoolsVersion", "pipVersion"}
         /\ trace[i].ret # 0)
        => /\ i = Len(trace)
           /\ status = "exited"
           /\ exitCode = trace[i].ret
           /\ ~HasRun("pipDeps")

\* C15's case: the pip version print has failed
C15_Witness ==
    /\ Len(trace) > 0
    /\ trace[Len(trace)].step = "pipVersion"
    /\ trace[Len(trace)].ret # 0
    /\ status = "exited"

UnderRoot(os, files) == { << <<"ros2-", os>> >> \o f : f \in files }

\* C9 as stated: the file entries of the archive written are the files in the install
\* space when the archive step starts, under 'ros2-<os>', in both branches.
C9_ArchiveRoundTrip ==
    [][ \A a \in archives' \ archives :
            a.files = UnderRoot(p_args.os, install_tree) ]_vars

\* C9 amended: the tar+bzip2 branch archives the files in the install space when the
\* archive step starts; the zip branch archives those and the four OpenCV DLLs it
\* copies into bin/ first; all under 'ros2-<os>', none dropped, no other added.
C9_ArchiveRoundTripAmended ==
    [][ \A a \in archives' \ archives :
            a.files = UnderRoot(p_args.os,
                        install_tree \cup
                        (IF a.format = "zip"
                            THEN { <<Bin, <<stem, version, ".dll">>>> :
                                     stem \in {"opencv_core", "opencv_highgui"},
                                     version \in {"2411", "2412"} }
                            ELSE {})) ]_vars

\* C9's case: a zip was written of a tree with a file at its top, a nested file and
\* a file in bin/
C9_Witness ==
    \E a \in archives :
        /\ a.format = "zip"
        /\ << <<"ros2-", "windows">>, <<"setup.bash">> >> \in a.files
        /\ << <<"ros2-", "windows">>, Lib, <<"python">>, <<"rclpy.py">> >> \in a.files
        /\ << <<"ros2-", "windows">>, Bin, <<"ros2">> >> \in a.files

\* C10: an archive exists only for linux, osx or windows, under the name and in the
\* format of its os; for another os the archive step raises RuntimeError, there is no
\* archive and build_and_package never returns.
C10_ArchiveSelection ==
    /\ Cardinality(archives) <= 1
    /\ \A a \in archives :
          \/ /\ p_args.os \in {"linux", "osx"}
             /\ a.path = <<"ros2-package-", p_args.os, ".tar.bz2">>
             /\ a.format = "tar.bz2"
          \/ /\ p_args.os = "windows"
             /\ a.path = <<"ros2-package-windows.zip">>
             /\ a.format = "zip"
    /\ p_args.os \notin {"linux", "osx", "windows"} =>
          /\ archives = {}
          /\ p_status # "returned"
          /\ p_code # 0
          /\ p_pc # "return"
          /\ (p_pc = "archive" /\ p_status # "running") =>
                (p_status = "raised" /\ p_error = "RuntimeError")

\* C10's case: the archive step was reached with an os that is none of the three
C10_Witness ==
    /\ p_args.os = "freebsd"
    /\ p_pc = "archive"
    /\ p_status = "raised"
    /\ p_error = "RuntimeError"
    /\ archives = {}

\* The build invocations so far
MainBuilds == { i \in 1..Len(p_trace) : p_trace[i].step = "mainBuild" }
BridgeBuilds == { i \in 1..Len(p_trace) : p_trace[i].step = "bridgeBuild" }

\* C17: the sentinel is written only if the masked subdirectory exists, and before
\* the main build; once written it is removed again, so however the stage ends
\* (main build zero or non-zero) no sentinel it wrote is left in the source tree.
C17_MaskUnmask ==
    /\ marker # <<>> => Ros1BridgePath \in src_tree
    /\ \A i \in MainBuilds : p_trace[i].marked => p_trace[i].ignored
    /\ (p_status # "running" /\ marker # <<>>) => marker \notin src_tree

\* C18: the main build is invoked once; on linux and osx one more build follows,
\* only of the bridge and with the single-job flag, after the main build returned
\* and with the sentinel gone; on windows there is no second build; when the
\* executables are removed and the archive is made all builds are done.
C18_BuildSequence ==
    /\ Cardinality(MainBuilds) <= 1
    /\ Cardinality(BridgeBuilds) <= 1
    /\ \A i \in MainBuilds : "--only" \notin p_trace[i].cmd
    /\ \A j \in BridgeBuilds :
          /\ p_args.os \in {"linux", "osx"}
          /\ \E i \in MainBuilds : i < j /\ p_trace[i].ret = 0
          /\ "--only" \in p_trace[j].cmd
          /\ "--make-flags -j1" \in p_trace[j].cmd
          /\ ~p_trace[j].ignored
    /\ p_pc \in {"unmask", "bridgeBuild"} => Cardinality(MainBuilds) = 1
    /\ p_pc \in {"removeExecutables", "archive", "return", "end"} =>
          /\ Cardinality(MainBuilds) = 1
          /\ Cardinality(BridgeBuilds) = (IF p_args.os \in {"linux", "osx"} THEN 1 ELSE 0)
          /\ \A i \in 1..Len(p_trace) : p_trace[i].ret = 0
    /\ archives # {} => p_pc \in {"return", "end"}

\* C18's case: a linux run masked the bridge, built twice and returned
C18_Witness ==
    /\ p_status = "returned"
    /\ p_args.os = "linux"
    /\ marker # <<>>
    /\ Cardinality(MainBuilds) = 1
    /\ Cardinality(BridgeBuilds) = 1
    /\ archives # {}

\* C19: a build that returns non-zero ends the process with that code and no archive;
\* an archive exists, and 0 is returned, only when every build invocation returned
\* zero.
C19_PackagingFailFast ==
    /\ \A i \in 1..Len(p_trace) :
          p_trace[i].ret # 0 =>
             /\ i = Len(p_trace)
             /\ p_status = "exited"
             /\ p_code = p_trace[i].ret
             /\ archives = {}
    /\ (archives # {} \/ p_status = "returned") =>
          /\ MainBuilds # {}
          /\ \A i \in 1..Len(p_trace) : p_trace[i].ret = 0
    /\ p_status = "returned" => (p_code = 0 /\ archives # {})

\* C19's case: the build of the bridge failed after the main build succeeded
C19_Witness ==
    /\ p_status = "exited"
    /\ Len(p_trace) = 2
    /\ p_trace[1].ret = 0
    /\ p_trace[2].step = "bridgeBuild"
    /\ p_trace[2].ret # 0
    /\ p_code # 0
    /\ archives = {}

====
